---- MODULE Spec2Model ----
(***************************************************************************)
(* Model of harbinger's ReleaseNotifier (src/harbinger/release_notifier.py) *)
(* One process runs check_for_release for the dependencies of a batch.     *)
(* The state is the part of the file system the notifier touches (the      *)
(* reference files, their .bkup siblings, the temporary directories), the  *)
(* process working directory, the fields of each ReleaseNotifier and the   *)
(* position of each check_for_release call.                                *)
(***************************************************************************)
EXTENDS Integers, Sequences, FiniteSets, TLC

\* Number of check_for_release calls a behaviour holds.
MaxChecks == 3

\* The batch slots: one ReleaseNotifier object each.
W == {1, 2}

Other(w) == 3 - w

\* ---------------------------------------------------------------- values

Versions == {"1.0", "1.1"}
Sonames == {"A", "B"}

\* A version record: 'version' plus one plugin-specific extra key.
Rec == [version : Versions, soname : Sonames]

\* What a plugin's get_version may hand back that is a dict without 'version'.
NoVersionKey == [soname |-> "A"]

\* A file's content: <<>> when the file does not exist, <<r>> when it holds r
\* (yaml.safe_dump followed by yaml.safe_load gives back a dict of string
\* keys and string values as it was).
NoFile == << >>
File(r) == << r >>
Contents == {NoFile} \cup {File(r) : r \in Rec}

\* A reference file that exists and holds nothing: open(..., 'w') has
\* truncated it and nothing was written. yaml.safe_load gives None for it.
NoneRec == [none |-> "None"]
Truncated == File(NoneRec)

\* The record every reference file that exists at the start holds.
BaseRec == [version |-> "1.0", soname |-> "A"]

\* Dependency names, as character sequences.
NameAB == << "a", "/", "b" >>
NameC == << "c" >>
NameA_B == << "a", "-", "b" >>

\* The batches: which dependency name each slot checks.
Batches == { [w \in W |-> IF w = 1 THEN NameAB ELSE NameC] }

\* A batch of two dependencies named 'a/b' and 'a-b'.
SharedBatches == { [w \in W |-> IF w = 1 THEN NameAB ELSE NameA_B] }

\* str.replace('/', '-')
RECURSIVE Replace(_)
Replace(s) ==
    IF s = << >> THEN << >>
    ELSE << (IF Head(s) = "/" THEN "-" ELSE Head(s)) >> \o Replace(Tail(s))

\* gen_ref_filename: the base name of the reference file of a dependency
\* (the directory part, refdir, is resolved by Resolve).
gen_ref_filename(name) == Replace(name) \o << "_reference" >>

FNames == { gen_ref_filename(b[w]) : b \in Batches, w \in W }

\* ---------------------------------------------------------------- directories

\* "launch": the directory the process is started in; "script": sys.path[0].
tmp(w) == IF w = 1 THEN "tmp1" ELSE "tmp2"
Dirs == {"launch", "script"} \cup { tmp(w) : w \in W }

\* Where a reference path can lead: refdir under the launch directory, refdir
\* under the script directory, or the absolute refdir.
Places == {"launch", "script", "abs"}
Nowhere == "nowhere"

PluginKinds == {"noparams", "unknown", "plain", "github"}

\* ---------------------------------------------------------------- cfitsio plugin

\* Longest changes.txt, in lines.
MaxLines == 3

\* changelog[0:21]
FallbackLines == 21

\* Lines of changes.txt, as word sequences; a text is a sequence of lines
\* (latest_changes += line appends one).
ChangelogLines == { << "Version", "4.0" >>, << "Version", "3.9" >>,
                    << "-", "fix" >>, << "see", "Version", "3.8" >> }
Changelogs == UNION { [1..n -> ChangelogLines] : n \in 0..MaxLines }

\* 'Version' in line.strip()
HasVersion(line) == \E i \in 1..Len(line) : line[i] = "Version"

\* A stored record written before the plugin recorded 'soname'.
NoSonameKey == [version |-> "1.0"]

\* self.soname: the third word of the CFITSIO_SONAME line, None without one
\* (an f-string prints None as 'None').
PluginSonames == Sonames \cup {"None"}

Footer == << "(For complete changelog information, consult the package changelog file in cfitsio/doc/changes.txt)" >>
NoteMark == "**NOTE: This release introduces a SONAME change from"
Note(ref_soname, soname) == << NoteMark, ref_soname, "to", soname >>

\* The for loop of get_extra over self.changelog: lines before the first
\* 'Version' line are skipped, that line opens the section, the next
\* 'Version' line ends it.
RECURSIVE Scan(_, _, _)
Scan(lines, sec_open, latest) ==
    IF lines = << >> THEN latest
    ELSE IF HasVersion(Head(lines)) /\ sec_open THEN latest
    ELSE IF HasVersion(Head(lines)) /\ ~sec_open
         THEN Scan(Tail(lines), TRUE, Append(latest, Head(lines)))
    ELSE IF sec_open THEN Scan(Tail(lines), sec_open, Append(latest, Head(lines)))
    ELSE Scan(Tail(lines), sec_open, latest)

\* if latest_changes == '': the lines of self.changelog[0:21]
LatestSection(changelog) ==
    IF Scan(changelog, FALSE, << >>) = << >>
    THEN SubSeq(changelog, 1, IF Len(changelog) < FallbackLines
                              THEN Len(changelog) ELSE FallbackLines)
    ELSE Scan(changelog, FALSE, << >>)

\* Faulty variant: the note is appended whatever the two sonames are.
get_extra_NoteAlways(changelog, ref_ver, soname) ==
    IF "soname" \notin DOMAIN ref_ver
    THEN [called |-> TRUE, exc |-> "KeyError", text |-> << >>]
    ELSE [called |-> TRUE, exc |-> "none",
          text |-> Append(Append(LatestSection(changelog), Footer),
                          Note(ref_ver.soname, soname))]

\* plugin.get_extra: the latest section, the pointer to the changelog file,
\* and the SONAME note when ref_ver_data['soname'] != self.soname.
\* ref_ver_data['soname'] raises KeyError when the key is missing.
get_extra(changelog, ref_ver, soname) ==
    IF "soname" \notin DOMAIN ref_ver
    THEN [called |-> TRUE, exc |-> "KeyError", text |-> << >>]
    ELSE IF ref_ver.soname /= soname
    THEN [called |-> TRUE, exc |-> "none",
          text |-> Append(Append(LatestSection(changelog), Footer),
                          Note(ref_ver.soname, soname))]
    ELSE [called |-> TRUE, exc |-> "none",
          text |-> Append(LatestSection(changelog), Footer)]

\* A cfitsio plugin object nobody has built, and get_extra not called.
NoPlugin == [changelog |-> << >>, ref_ver_data |-> BaseRec, soname |-> "None"]
NotCalled == [called |-> FALSE, exc |-> "none", text |-> << >>]

VARIABLES
    refdirAbs,    \* refdir is an absolute path
    cwd0,         \* the working directory a process starts in
    threaded,     \* the batch runs its notifiers on threads of one process
    reliable,     \* every collaborator (plugin, tracker) works in every call
    depname,      \* slot -> dependency name
    fs,           \* place -> file name -> content of the reference file
    bk,           \* place -> file name -> content of the .bkup sibling
    tmpExists,    \* slot -> its temporary directory exists
    cwd,          \* the process working directory
    checks,       \* check_for_release calls made so far
    pc,           \* slot -> position in check_for_release
    params,       \* slot -> plugin selector of the dependency's configuration
    dry_run,      \* slot -> self.dry_run
    github,       \* slot -> self.github is set
    new_ver_data, \* slot -> self.new_ver_data (<<>> for None)
    ref_ver_data, \* slot -> self.ref_ver_data (<<>> when unset)
    previousDir,  \* slot -> previousDir of the pushd in progress
    exc,          \* slot -> the exception propagating out of check_for_release
    result,       \* slot -> how the last check_for_release ended
    issues,       \* slot -> issues its check_for_release created on the tracker
    printed,      \* slot -> messages its check_for_release printed in dry-run
    changelogs,   \* slot -> calls of the plugin's get_changelog it made
    pre,          \* slot -> place -> content of its reference file at the call
    prebk,        \* slot -> place -> content of the .bkup sibling at the call
    rdir,         \* slot -> place reference_available looked in
    wdir,         \* slot -> place update_version_ref / bootstrap wrote to
    last,         \* slot -> how the dependency's previous check ended
    calldir,      \* slot -> the working directory at the call
    cfitsio,      \* a cfitsio plugin object: changelog, ref_ver_data, soname
    latest_changes \* what its get_extra returned

\* The plugin object is the plugin's own: no step of check_for_release
\* touches it.
pluginvars == << cfitsio, latest_changes >>
cfgvars == << refdirAbs, cwd0, threaded, reliable, depname, pluginvars >>
filevars == << fs, bk >>
objvars == << params, dry_run, github, new_ver_data, ref_ver_data, previousDir >>
ghostvars == << changelogs, pre, prebk, rdir, wdir, last, calldir >>
vars == << refdirAbs, cwd0, threaded, reliable, depname, fs, bk, tmpExists, cwd, checks, pc,
           params, dry_run, github, new_ver_data, ref_ver_data, previousDir,
           exc, result, issues, printed, changelogs, pre, prebk, rdir, wdir,
           last, calldir, cfitsio, latest_changes >>

\* self.ref_file of slot w, as a file name
ref_file(w) == gen_ref_filename(depname[w])

\* The place a path under refdir denotes when the working directory is d.
\* os.path.join(refdir, ...) is relative to d unless refdir is absolute; a
\* temporary directory (existing or removed) holds no refdir.
Resolve(d) ==
    IF refdirAbs THEN "abs"
    ELSE IF d \in {"launch", "script"} THEN d
    ELSE Nowhere

DirExists(d) == d \in {"launch", "script"} \/ \E w \in W : d = tmp(w) /\ tmpExists[w]

\* os.path.isfile(path)
IsFile(p, f) == p /= Nowhere /\ fs[p][f] /= NoFile

Running(w) == pc[w] \notin {"idle", "finished"}


\* ---------------------------------------------------------------- exceptions

\* An exception raised inside the "with tempfile.TemporaryDirectory()" block
\* leaves through the directory's cleanup; pushd has no try/finally, so the
\* working directory is left as it is.
Raise(w, e) ==
    /\ exc' = [exc EXCEPT ![w] = e]
    /\ pc' = [pc EXCEPT ![w] = "cleanup"]

\* ---------------------------------------------------------------- actions

\* ReleaseNotifier.__init__ for slot w, with the dry_run the driver sets.
ReleaseNotifier_init(w, k, d) ==
    /\ params' = [params EXCEPT ![w] = k]
    /\ dry_run' = [dry_run EXCEPT ![w] = d]
    /\ github' = [github EXCEPT ![w] = FALSE]
    /\ new_ver_data' = [new_ver_data EXCEPT ![w] = NoFile]
    /\ ref_ver_data' = [ref_ver_data EXCEPT ![w] = NoFile]

\* The batch runner takes the next dependency: it builds the notifier and
\* calls check_for_release. Without threads a check runs to its end before
\* the next one begins.
Start(w) ==
    /\ pc[w] = "idle"
    /\ checks < MaxChecks
    /\ threaded \/ pc[Other(w)] \in {"idle", "finished"}
    /\ \E k \in (IF reliable THEN {"github"} ELSE PluginKinds), d \in BOOLEAN :
         ReleaseNotifier_init(w, k, d)
    /\ pre' = [pre EXCEPT ![w] = [p \in Places |-> fs[p][ref_file(w)]]]
    /\ prebk' = [prebk EXCEPT ![w] = [p \in Places |-> bk[p][ref_file(w)]]]
    /\ calldir' = [calldir EXCEPT ![w] = cwd]
    /\ pc' = [pc EXCEPT ![w] = "load_plugin"]
    /\ checks' = checks + 1
    /\ UNCHANGED << cfgvars, filevars, tmpExists, cwd, previousDir, exc,
                    result, issues, printed, changelogs, rdir, wdir, last >>

\* Faulty variant: an identifier that cannot be imported is let through.
load_plugin_AnyIdentifier(w) ==
    /\ pc[w] = "load_plugin"
    /\ IF params[w] = "noparams"
       THEN /\ exc' = [exc EXCEPT ![w] = "NameError"]
            /\ pc' = [pc EXCEPT ![w] = "done"]
            /\ UNCHANGED github
       ELSE /\ github' = [github EXCEPT ![w] = (params[w] = "github")]
            /\ pc' = [pc EXCEPT ![w] = "tmpdir"]
            /\ UNCHANGED exc
    /\ UNCHANGED << cfgvars, filevars, tmpExists, cwd, checks, params, dry_run,
                    new_ver_data, ref_ver_data, previousDir, result, issues,
                    printed, ghostvars >>

\* load_plugin: no params -> the f-string reads the undefined name depname;
\* an identifier that cannot be imported -> ImportError; a plugin whose name
\* contains 'github' logs in and keeps the session.
load_plugin(w) ==
    /\ pc[w] = "load_plugin"
    /\ IF params[w] = "noparams"
       THEN /\ exc' = [exc EXCEPT ![w] = "NameError"]
            /\ pc' = [pc EXCEPT ![w] = "done"]
            /\ UNCHANGED github
       ELSE IF params[w] = "unknown"
       THEN /\ exc' = [exc EXCEPT ![w] = "ImportError"]
            /\ pc' = [pc EXCEPT ![w] = "done"]
            /\ UNCHANGED github
       ELSE /\ github' = [github EXCEPT ![w] = (params[w] = "github")]
            /\ pc' = [pc EXCEPT ![w] = "tmpdir"]
            /\ UNCHANGED exc
    /\ UNCHANGED << cfgvars, filevars, tmpExists, cwd, checks, params, dry_run,
                    new_ver_data, ref_ver_data, previousDir, result, issues,
                    printed, ghostvars >>

\* with tempfile.TemporaryDirectory() as self.tmpdir
TemporaryDirectory_enter(w) ==
    /\ pc[w] = "tmpdir"
    /\ tmpExists' = [tmpExists EXCEPT ![w] = TRUE]
    /\ pc' = [pc EXCEPT ![w] = "pushd1"]
    /\ UNCHANGED << cfgvars, filevars, cwd, checks, objvars, exc, result, issues,
                    printed, ghostvars >>

\* pushd, up to the yield: previousDir = os.getcwd(); os.chdir(newDir), taken
\* as one step. os.getcwd() raises FileNotFoundError in a removed directory.
pushd_enter(w, here, next) ==
    /\ pc[w] = here
    /\ IF DirExists(cwd)
       THEN /\ previousDir' = [previousDir EXCEPT ![w] = cwd]
            /\ cwd' = tmp(w)
            /\ pc' = [pc EXCEPT ![w] = next]
            /\ UNCHANGED exc
       ELSE /\ Raise(w, "FileNotFoundError")
            /\ UNCHANGED << previousDir, cwd >>
    /\ UNCHANGED << cfgvars, filevars, tmpExists, checks, params, dry_run, github,
                    new_ver_data, ref_ver_data, result, issues, printed,
                    ghostvars >>

\* pushd, after the yield (reached only when the body raised nothing):
\* os.chdir(previousDir).
pushd_exit(w, here, next) ==
    /\ pc[w] = here
    /\ IF DirExists(previousDir[w])
       THEN /\ cwd' = previousDir[w]
            /\ pc' = [pc EXCEPT ![w] = next]
            /\ UNCHANGED exc
       ELSE /\ Raise(w, "FileNotFoundError")
            /\ UNCHANGED cwd
    /\ UNCHANGED << cfgvars, filevars, tmpExists, checks, objvars, result, issues,
                    printed, ghostvars >>

\* What the plugin's get_version may do: return a record, return a dict
\* without 'version', or raise.
FetchResults == {File(r) : r \in Rec} \cup {File(NoVersionKey), NoFile}

\* Faulty variant: the 'version' key of what get_version returned is not
\* looked at.
get_version_Unchecked(w) ==
    /\ pc[w] = "get_version"
    /\ \E got \in (IF reliable THEN {File(r) : r \in Rec} ELSE FetchResults) :
         IF got = NoFile
         THEN /\ Raise(w, "FetchError")
              /\ UNCHANGED new_ver_data
         ELSE /\ new_ver_data' = [new_ver_data EXCEPT ![w] = got]
              /\ pc' = [pc EXCEPT ![w] = "popd1"]
              /\ UNCHANGED exc
    /\ UNCHANGED << cfgvars, filevars, tmpExists, cwd, checks, params, dry_run,
                    github, ref_ver_data, previousDir, result, issues, printed,
                    ghostvars >>

\* self.new_ver_data = self.get_version()
\* self.remote_ver = self.new_ver_data['version']
get_version(w) ==
    /\ pc[w] = "get_version"
    /\ \E got \in (IF reliable THEN {File(r) : r \in Rec} ELSE FetchResults) :
         IF got = NoFile
         THEN /\ Raise(w, "FetchError")
              /\ UNCHANGED new_ver_data
         ELSE IF got = File(NoVersionKey)
         THEN /\ Raise(w, "KeyError")
              /\ new_ver_data' = [new_ver_data EXCEPT ![w] = got]
         ELSE /\ new_ver_data' = [new_ver_data EXCEPT ![w] = got]
              /\ pc' = [pc EXCEPT ![w] = "popd1"]
              /\ UNCHANGED exc
    /\ UNCHANGED << cfgvars, filevars, tmpExists, cwd, checks, params, dry_run,
                    github, ref_ver_data, previousDir, result, issues, printed,
                    ghostvars >>

\* if self.reference_available():
reference_available(w) ==
    /\ pc[w] = "reference_available"
    /\ rdir' = [rdir EXCEPT ![w] = Resolve(cwd)]
    /\ pc' = [pc EXCEPT ![w] = IF IsFile(Resolve(cwd), ref_file(w))
                                THEN "read_reference" ELSE "bootstrap"]
    /\ UNCHANGED << cfgvars, filevars, tmpExists, cwd, checks, objvars, exc,
                    result, issues, printed, changelogs, pre, prebk, wdir, last,
                    calldir >>

\* read_reference: open(self.ref_file), yaml.safe_load
read_reference(w) ==
    /\ pc[w] = "read_reference"
    /\ IF IsFile(Resolve(cwd), ref_file(w))
       THEN /\ ref_ver_data' = [ref_ver_data EXCEPT ![w] = fs[Resolve(cwd)][ref_file(w)]]
            /\ pc' = [pc EXCEPT ![w] = "new_version"]
            /\ UNCHANGED exc
       ELSE /\ Raise(w, "FileNotFoundError")
            /\ UNCHANGED ref_ver_data
    /\ UNCHANGED << cfgvars, filevars, tmpExists, cwd, checks, params, dry_run,
                    github, new_ver_data, previousDir, result, issues, printed,
                    ghostvars >>

\* Faulty variants of the comparison: the whole records compared; every
\* fetch taken for a new version.
VersionDiffers_WholeRecord(new, ver_info) == new /= ver_info
VersionDiffers_Always(new, ver_info) == TRUE

\* The comparison of new_version: self.remote_ver != ver_info['version']
VersionDiffers(new, ver_info) == new.version /= ver_info.version

\* new_version: reads the reference file again and compares the versions.
\* ver_info['version'] raises TypeError when the file is empty (ver_info is
\* None).
new_version(w) ==
    /\ pc[w] = "new_version"
    /\ IF ~IsFile(Resolve(cwd), ref_file(w))
       THEN /\ Raise(w, "FileNotFoundError")
            /\ UNCHANGED result
       ELSE IF fs[Resolve(cwd)][ref_file(w)] = Truncated
       THEN /\ Raise(w, "TypeError")
            /\ UNCHANGED result
       ELSE /\ IF VersionDiffers(new_ver_data[w][1], fs[Resolve(cwd)][ref_file(w)][1])
               THEN /\ pc' = [pc EXCEPT ![w] = "pushd2"]
                    /\ UNCHANGED result
               ELSE /\ pc' = [pc EXCEPT ![w] = "cleanup"]
                    /\ result' = [result EXCEPT ![w] = "unchanged"]
            /\ UNCHANGED exc
    /\ UNCHANGED << cfgvars, filevars, tmpExists, cwd, checks, objvars, issues,
                    printed, ghostvars >>

\* self.comment = self.get_changelog(self.ref_ver_data, self.new_ver_data)
get_changelog(w) ==
    /\ pc[w] = "get_changelog"
    /\ changelogs' = [changelogs EXCEPT ![w] = @ + 1]
    /\ \E ok \in (IF reliable THEN {TRUE} ELSE BOOLEAN) :
         IF ok
         THEN /\ pc' = [pc EXCEPT ![w] = "update_version_ref"]
              /\ UNCHANGED exc
         ELSE Raise(w, "ChangelogError")
    /\ UNCHANGED << cfgvars, filevars, tmpExists, cwd, checks, objvars, result,
                    issues, printed, pre, prebk, rdir, wdir, last, calldir >>

\* update_version_ref, first statement: os.chdir(sys.path[0])
update_version_ref_chdir(w) ==
    /\ pc[w] = "update_version_ref"
    /\ cwd' = "script"
    /\ pc' = [pc EXCEPT ![w] = "backup"]
    /\ UNCHANGED << cfgvars, filevars, tmpExists, checks, objvars, exc, result,
                    issues, printed, ghostvars >>

\* Faulty variant: the write is reached without the copy.
update_version_ref_backup_Skipped(w) ==
    /\ pc[w] = "backup"
    /\ IF IsFile(Resolve(cwd), ref_file(w))
       THEN /\ pc' = [pc EXCEPT ![w] = "write"]
            /\ UNCHANGED << exc, bk >>
       ELSE /\ Raise(w, "FileNotFoundError")
            /\ UNCHANGED bk
    /\ UNCHANGED << cfgvars, fs, tmpExists, cwd, checks, objvars, result, issues,
                    printed, ghostvars >>

\* update_version_ref: shutil.copy(self.ref_file, self.ref_backup)
update_version_ref_backup(w) ==
    /\ pc[w] = "backup"
    /\ IF IsFile(Resolve(cwd), ref_file(w))
       THEN /\ bk' = [bk EXCEPT ![Resolve(cwd)][ref_file(w)] = fs[Resolve(cwd)][ref_file(w)]]
            /\ pc' = [pc EXCEPT ![w] = "write"]
            /\ UNCHANGED exc
       ELSE /\ Raise(w, "FileNotFoundError")
            /\ UNCHANGED bk
    /\ UNCHANGED << cfgvars, fs, tmpExists, cwd, checks, objvars, result, issues,
                    printed, ghostvars >>

\* write_version_ref: open(self.ref_file, 'w'); f.write(yaml.safe_dump(...)).
\* The whole of new_ver_data is dumped.
write_version_ref(w, next, res) ==
    IF Resolve(cwd) /= Nowhere
    THEN /\ fs' = [fs EXCEPT ![Resolve(cwd)][ref_file(w)] = new_ver_data[w]]
         /\ wdir' = [wdir EXCEPT ![w] = Resolve(cwd)]
         /\ pc' = [pc EXCEPT ![w] = next]
         /\ result' = [result EXCEPT ![w] = res]
         /\ UNCHANGED exc
    ELSE /\ Raise(w, "FileNotFoundError")
         /\ UNCHANGED << fs, wdir, result >>

\* update_version_ref: try: self.write_version_ref() except e: ...
\* (an exception reaches "except e", whose e is undefined: NameError)
update_version_ref_write(w) ==
    /\ pc[w] = "write"
    /\ write_version_ref(w, "create_github_issue", result[w])
    /\ UNCHANGED << cfgvars, bk, tmpExists, cwd, checks, objvars, issues, printed,
                    changelogs, pre, prebk, rdir, last, calldir >>

\* The bootstrap branch of check_for_release: self.write_version_ref()
bootstrap(w) ==
    /\ pc[w] = "bootstrap"
    /\ write_version_ref(w, "cleanup", "bootstrap")
    /\ UNCHANGED << cfgvars, bk, tmpExists, cwd, checks, objvars, issues, printed,
                    changelogs, pre, prebk, rdir, last, calldir >>

\* write_version_ref, its first half: open(self.ref_file, 'w') creates the
\* file or truncates it to nothing.
write_version_ref_open(w, here, next) ==
    /\ pc[w] = here
    /\ IF Resolve(cwd) /= Nowhere
       THEN /\ fs' = [fs EXCEPT ![Resolve(cwd)][ref_file(w)] = Truncated]
            /\ wdir' = [wdir EXCEPT ![w] = Resolve(cwd)]
            /\ pc' = [pc EXCEPT ![w] = next]
            /\ UNCHANGED exc
       ELSE /\ Raise(w, "FileNotFoundError")
            /\ UNCHANGED << fs, wdir >>
    /\ UNCHANGED << cfgvars, bk, tmpExists, cwd, checks, objvars, result, issues,
                    printed, changelogs, pre, prebk, rdir, last, calldir >>

\* write_version_ref, its second half: f.write(reference) and the close at
\* the end of the with block put the dumped record into the file.
write_version_ref_close(w, here, next, res) ==
    /\ pc[w] = here
    /\ fs' = [fs EXCEPT ![wdir[w]][ref_file(w)] = new_ver_data[w]]
    /\ pc' = [pc EXCEPT ![w] = next]
    /\ result' = [result EXCEPT ![w] = res]
    /\ UNCHANGED << cfgvars, bk, tmpExists, cwd, checks, objvars, exc, issues,
                    printed, ghostvars >>

\* What post_notification does when create_github_issue raised: "except e"
\* evaluates the undefined name e, so NameError leaves post_notification and
\* the rollback line is never reached. TRUE: the reference is restored.
RollsBack == FALSE

\* Faulty variant: the dry_run flag is not looked at.
UsesTracker_Always(w) == TRUE

\* create_github_issue: "if self.dry_run: print(self.comment) else: ..."
UsesTracker(w) == ~dry_run[w]

\* post_notification: try: self.create_github_issue() except e: rollback.
\* create_github_issue: dry-run prints the comment; otherwise it needs
\* self.github (else it reads the undefined name password and calls
\* create_issue on None) and calls create_issue. "delivered" is what the live
\* branch meets: FALSE when the module global args is not bound by the driver
\* or the tracker refuses the issue, TRUE when the issue is created.
create_github_issue(w) ==
    /\ pc[w] = "create_github_issue"
    /\ \E delivered \in (IF reliable THEN {TRUE} ELSE BOOLEAN) :
         IF ~UsesTracker(w)
         THEN /\ printed' = [printed EXCEPT ![w] = @ + 1]
              /\ pc' = [pc EXCEPT ![w] = "popd2"]
              /\ result' = [result EXCEPT ![w] = "notified"]
              /\ UNCHANGED << issues, exc, fs >>
         ELSE IF github[w] /\ delivered
         THEN /\ issues' = [issues EXCEPT ![w] = @ + 1]
              /\ pc' = [pc EXCEPT ![w] = "popd2"]
              /\ result' = [result EXCEPT ![w] = "notified"]
              /\ UNCHANGED << printed, exc, fs >>
         ELSE /\ IF RollsBack /\ Resolve(cwd) /= Nowhere
                 THEN fs' = [fs EXCEPT ![Resolve(cwd)][ref_file(w)] =
                                           bk[Resolve(cwd)][ref_file(w)]]
                 ELSE UNCHANGED fs
              /\ Raise(w, IF github[w] THEN "DeliveryError" ELSE "NameError")
              /\ UNCHANGED << printed, issues, result >>
    /\ UNCHANGED << cfgvars, bk, tmpExists, cwd, checks, objvars, ghostvars >>

\* Faulty variant: the directory is removed on a normal return only.
TemporaryDirectory_exit_OnReturnOnly(w) ==
    /\ pc[w] = "cleanup"
    /\ tmpExists' = [tmpExists EXCEPT ![w] = (exc[w] /= "none")]
    /\ pc' = [pc EXCEPT ![w] = "done"]
    /\ previousDir' = [previousDir EXCEPT ![w] = cwd0]
    /\ UNCHANGED << cfgvars, filevars, cwd, checks, params, dry_run, github,
                    new_ver_data, ref_ver_data, exc, result, issues, printed,
                    ghostvars >>

\* TemporaryDirectory.__exit__: the directory is removed, on return and on
\* exception alike; then check_for_release returns or the exception leaves it.
TemporaryDirectory_exit(w) ==
    /\ pc[w] = "cleanup"
    /\ tmpExists' = [tmpExists EXCEPT ![w] = FALSE]
    /\ pc' = [pc EXCEPT ![w] = "done"]
    /\ previousDir' = [previousDir EXCEPT ![w] = cwd0]
    /\ UNCHANGED << cfgvars, filevars, cwd, checks, params, dry_run, github,
                    new_ver_data, ref_ver_data, exc, result, issues, printed,
                    ghostvars >>

\* How the last check_for_release of slot w ended, for its caller.
Outcome(w) == IF exc[w] /= "none" THEN "error" ELSE result[w]

\* What is remembered of a finished check for the dependency's next one:
\* "boot" with the record stored, when it bootstrapped a dependency that had
\* no reference file anywhere; "posted" with the record notified, when it
\* created an issue; "other" else.
NoHistory == [kind |-> "other", rec |-> NoFile]
Summary(w) ==
    IF Outcome(w) = "bootstrap" /\ \A p \in Places : pre[w][p] = NoFile
    THEN [kind |-> "boot", rec |-> new_ver_data[w]]
    ELSE IF issues[w] > 0
    THEN [kind |-> "posted", rec |-> new_ver_data[w]]
    ELSE NoHistory

\* The batch runner has the outcome of slot w's check (a return or a caught
\* exception): it reports it, drops the notifier and goes on.
next_dependency(w) ==
    /\ pc[w] = "done"
    /\ pc' = [pc EXCEPT ![w] = "finished"]
    /\ params' = [params EXCEPT ![w] = "plain"]
    /\ dry_run' = [dry_run EXCEPT ![w] = FALSE]
    /\ github' = [github EXCEPT ![w] = FALSE]
    /\ new_ver_data' = [new_ver_data EXCEPT ![w] = NoFile]
    /\ ref_ver_data' = [ref_ver_data EXCEPT ![w] = NoFile]
    /\ exc' = [exc EXCEPT ![w] = "none"]
    /\ result' = [result EXCEPT ![w] = "none"]
    /\ issues' = [issues EXCEPT ![w] = 0]
    /\ printed' = [printed EXCEPT ![w] = 0]
    /\ changelogs' = [changelogs EXCEPT ![w] = 0]
    /\ pre' = [pre EXCEPT ![w] = [p \in Places |-> NoFile]]
    /\ prebk' = [prebk EXCEPT ![w] = [p \in Places |-> NoFile]]
    /\ rdir' = [rdir EXCEPT ![w] = Nowhere]
    /\ wdir' = [wdir EXCEPT ![w] = Nowhere]
    /\ last' = [last EXCEPT ![w] = Summary(w)]
    /\ calldir' = [calldir EXCEPT ![w] = Nowhere]
    /\ UNCHANGED << cfgvars, filevars, tmpExists, cwd, checks, previousDir >>

\* The process stops (it is killed, the machine goes down) while a check is
\* running: its objects are gone, the files stay as they are. The stopped
\* check's temporary directory stays on disk; no later check uses it.
Stop ==
    /\ \E w \in W : Running(w)
    /\ cwd' = cwd0
    /\ tmpExists' = [w \in W |-> FALSE]
    /\ pc' = [w \in W |-> "idle"]
    /\ params' = [w \in W |-> "plain"]
    /\ dry_run' = [w \in W |-> FALSE]
    /\ github' = [w \in W |-> FALSE]
    /\ new_ver_data' = [w \in W |-> NoFile]
    /\ ref_ver_data' = [w \in W |-> NoFile]
    /\ previousDir' = [w \in W |-> cwd0]
    /\ exc' = [w \in W |-> "none"]
    /\ result' = [w \in W |-> "none"]
    /\ issues' = [w \in W |-> 0]
    /\ printed' = [w \in W |-> 0]
    /\ changelogs' = [w \in W |-> 0]
    /\ pre' = [w \in W |-> [p \in Places |-> NoFile]]
    /\ prebk' = [w \in W |-> [p \in Places |-> NoFile]]
    /\ rdir' = [w \in W |-> Nowhere]
    /\ wdir' = [w \in W |-> Nowhere]
    /\ last' = [w \in W |-> NoHistory]
    /\ calldir' = [w \in W |-> Nowhere]
    /\ UNCHANGED << cfgvars, filevars, checks >>

\* The scheduler starts the next process of the batch: a fresh working
\* directory; the files stay.
NewProcess ==
    /\ \A w \in W : pc[w] \in {"idle", "finished"}
    /\ \E w \in W : pc[w] = "finished"
    /\ checks < MaxChecks
    /\ cwd' = cwd0
    /\ pc' = [w \in W |-> "idle"]
    /\ UNCHANGED << cfgvars, filevars, tmpExists, checks, objvars, exc, result,
                    issues, printed, ghostvars >>

\* ---------------------------------------------------------------- specification

\* The reference files a deployment starts with: each is absent or holds
\* BaseRec, in the places refdir can denote.
InitFiles(abs, start, names) ==
    { f \in [Places -> [FNames -> {NoFile, File(BaseRec)}]] :
        \A p \in Places, n \in FNames :
            f[p][n] /= NoFile =>
                /\ n \in { gen_ref_filename(names[w]) : w \in W }
                /\ IF abs THEN p = "abs"
                   ELSE p \in {start, "script"} }

InitWith(batches) ==
    /\ refdirAbs \in BOOLEAN
    /\ cwd0 \in (IF refdirAbs THEN {"launch"} ELSE {"launch", "script"})
    /\ depname \in batches
    /\ fs \in InitFiles(refdirAbs, cwd0, depname)
    /\ bk = [p \in Places |-> [n \in FNames |-> NoFile]]
    /\ tmpExists = [w \in W |-> FALSE]
    /\ cwd = cwd0
    /\ checks = 0
    /\ pc = [w \in W |-> "idle"]
    /\ params = [w \in W |-> "plain"]
    /\ dry_run = [w \in W |-> FALSE]
    /\ github = [w \in W |-> FALSE]
    /\ new_ver_data = [w \in W |-> NoFile]
    /\ ref_ver_data = [w \in W |-> NoFile]
    /\ previousDir = [w \in W |-> cwd0]
    /\ exc = [w \in W |-> "none"]
    /\ result = [w \in W |-> "none"]
    /\ issues = [w \in W |-> 0]
    /\ printed = [w \in W |-> 0]
    /\ changelogs = [w \in W |-> 0]
    /\ pre = [w \in W |-> [p \in Places |-> NoFile]]
    /\ prebk = [w \in W |-> [p \in Places |-> NoFile]]
    /\ rdir = [w \in W |-> Nowhere]
    /\ wdir = [w \in W |-> Nowhere]
    /\ last = [w \in W |-> NoHistory]
    /\ calldir = [w \in W |-> Nowhere]

InitCommon == InitWith(Batches)

InitNoPlugin == cfitsio = NoPlugin /\ latest_changes = NotCalled

\* Sequential batches, as the driver runs them.
Init == InitCommon /\ threaded = FALSE /\ reliable = FALSE /\ InitNoPlugin

\* The notifiers of one batch on threads of one process.
InitThreaded == InitCommon /\ threaded = TRUE /\ reliable = TRUE /\ InitNoPlugin

Check ==
    \/ \E w \in W : Start(w)
    \/ \E w \in W : load_plugin(w)
    \/ \E w \in W : TemporaryDirectory_enter(w)
    \/ \E w \in W : pushd_enter(w, "pushd1", "get_version")
    \/ \E w \in W : get_version(w)
    \/ \E w \in W : pushd_exit(w, "popd1", "reference_available")
    \/ \E w \in W : reference_available(w)
    \/ \E w \in W : read_reference(w)
    \/ \E w \in W : new_version(w)
    \/ \E w \in W : pushd_enter(w, "pushd2", "get_changelog")
    \/ \E w \in W : get_changelog(w)
    \/ \E w \in W : update_version_ref_chdir(w)
    \/ \E w \in W : update_version_ref_backup(w)
    \/ \E w \in W : update_version_ref_write(w)
    \/ \E w \in W : create_github_issue(w)
    \/ \E w \in W : pushd_exit(w, "popd2", "cleanup")
    \/ \E w \in W : bootstrap(w)
    \/ \E w \in W : TemporaryDirectory_exit(w)
    \/ \E w \in W : next_dependency(w)

Next == Check \/ NewProcess

Spec == Init /\ [][Next]_vars

\* One process, its two notifiers on threads.
SpecThreaded == InitThreaded /\ [][Check]_vars

\* Sequential batches of two dependencies whose names differ only in '/'
\* against '-'.
InitShared ==
    InitWith(SharedBatches) /\ threaded = FALSE /\ reliable = FALSE /\ InitNoPlugin

SpecShared == InitShared /\ [][Next]_vars

\* Sequential batches with collaborators that work, in a process that may
\* stop at any step; write_version_ref is taken in its two halves.
InitCrash == InitCommon /\ threaded = FALSE /\ reliable = TRUE /\ InitNoPlugin

NextCrash ==
    \/ \E w \in W : Start(w)
    \/ \E w \in W : load_plugin(w)
    \/ \E w \in W : TemporaryDirectory_enter(w)
    \/ \E w \in W : pushd_enter(w, "pushd1", "get_version")
    \/ \E w \in W : get_version(w)
    \/ \E w \in W : pushd_exit(w, "popd1", "reference_available")
    \/ \E w \in W : reference_available(w)
    \/ \E w \in W : read_reference(w)
    \/ \E w \in W : new_version(w)
    \/ \E w \in W : pushd_enter(w, "pushd2", "get_changelog")
    \/ \E w \in W : get_changelog(w)
    \/ \E w \in W : update_version_ref_chdir(w)
    \/ \E w \in W : update_version_ref_backup(w)
    \/ \E w \in W : write_version_ref_open(w, "write", "write_close")
    \/ \E w \in W : write_version_ref_close(w, "write_close",
                                              "create_github_issue", result[w])
    \/ \E w \in W : create_github_issue(w)
    \/ \E w \in W : pushd_exit(w, "popd2", "cleanup")
    \/ \E w \in W : write_version_ref_open(w, "bootstrap", "bootstrap_close")
    \/ \E w \in W : write_version_ref_close(w, "bootstrap_close", "cleanup",
                                              "bootstrap")
    \/ \E w \in W : TemporaryDirectory_exit(w)
    \/ \E w \in W : next_dependency(w)
    \/ NewProcess
    \/ Stop

SpecCrash == InitCrash /\ [][NextCrash]_vars

\* The cfitsio plugin alone: an object built from any changes.txt, stored
\* record and header soname; the notifier is not running.
InitGetExtra ==
    /\ refdirAbs = TRUE
    /\ cwd0 = "launch"
    /\ fs = [p \in Places |-> [n \in FNames |-> NoFile]]
    /\ InitCommon
    /\ threaded = FALSE
    /\ reliable = TRUE
    /\ cfitsio \in [changelog : Changelogs,
                    ref_ver_data : Rec \cup {NoSonameKey},
                    soname : PluginSonames]
    /\ latest_changes = NotCalled

\* The notifier's message is asked for: plugin.get_extra()
call_get_extra ==
    /\ ~latest_changes.called
    /\ latest_changes' = get_extra(cfitsio.changelog, cfitsio.ref_ver_data,
                                   cfitsio.soname)
    /\ UNCHANGED << refdirAbs, cwd0, threaded, reliable, depname, cfitsio,
                    filevars, tmpExists, cwd, checks, pc, objvars, exc, result,
                    issues, printed, ghostvars >>

SpecGetExtra == InitGetExtra /\ [][call_get_extra]_vars

\* ---------------------------------------------------------------- claims

Done(w) == pc[w] = "done"

\* get_version returned a record with a version.
Fetched(w) == new_ver_data[w] \in {File(r) : r \in Rec}

\* reference_available found the reference file, and it was there at the call.
HadReference(w) == rdir[w] /= Nowhere /\ pre[w][rdir[w]] /= NoFile

\* The reference file check_for_release tested and read, before and now.
ReferenceBefore(w) == pre[w][rdir[w]]
ReferenceNow(w) == fs[rdir[w]][ref_file(w)]

\* A change cycle: a reference was there and the fetched version differs.
ChangeSeen(w) ==
    /\ HadReference(w)
    /\ Fetched(w)
    /\ new_ver_data[w][1].version /= ReferenceBefore(w)[1].version

\* The fetched version equals the stored one.
SameVersion(w) ==
    /\ HadReference(w)
    /\ Fetched(w)
    /\ new_ver_data[w][1].version = ReferenceBefore(w)[1].version

\* update_version_ref wrote, so the notification step was reached.
Forwarded(w) == wdir[w] /= Nowhere /\ result[w] /= "bootstrap"

\* create_github_issue raised during post_notification.
NotificationFailed(w) == Forwarded(w) /\ exc[w] \in {"DeliveryError", "NameError"}

\* The failures that are a dependency's own: its configuration, its plugin,
\* the tracker refusing its issue.
OwnFailures == {"NameError", "ImportError", "FetchError", "KeyError",
                "ChangelogError", "DeliveryError"}

\* refdir denotes one directory whatever the working directory is among the
\* launch and the script directory.
OnePlace == refdirAbs \/ cwd0 = "script"
Home == Resolve(cwd0)

\* What a check of slot w does when run alone from the launch directory with
\* collaborators that work.
ExpectedOutcome(w) ==
    IF pre[w][Home] = NoFile THEN "bootstrap"
    ELSE IF new_ver_data[w][1].version = pre[w][Home][1].version THEN "unchanged"
    ELSE "notified"

ExpectedReference(w) ==
    IF ExpectedOutcome(w) = "unchanged" THEN pre[w][Home] ELSE new_ver_data[w]

AsAlone(w) ==
    /\ exc[w] = "none"
    /\ Outcome(w) = ExpectedOutcome(w)
    /\ fs[Home][ref_file(w)] = ExpectedReference(w)

\* C1. Rollback on delivery failure: when a change cycle's
\* create_github_issue raised, the reference file holds at the end of
\* check_for_release exactly the record it held when the run began.
C1_RollbackOnDeliveryFailure ==
    \A w \in W :
        (Done(w) /\ ChangeSeen(w) /\ NotificationFailed(w))
            => ReferenceNow(w) = ReferenceBefore(w)

\* C2. Retry until notified: at the end of a run that saw a version differing
\* from the stored reference, the reference holds the new record only if that
\* run's notification succeeded (so a failed notification is detected again
\* by the next run).
C2_ReferenceAdvancesOnlyWhenNotified ==
    \A w \in W :
        (Done(w) /\ ChangeSeen(w) /\ ReferenceNow(w) = new_ver_data[w])
            => Outcome(w) = "notified"

\* C3. Change detection: when a reference exists, the fetched version differs
\* and the notification step succeeded, exactly one notification was produced
\* and the reference file equals the whole fetched record.
C3_ChangeDetection ==
    \A w \in W :
        (Done(w) /\ ChangeSeen(w) /\ Outcome(w) = "notified")
            => /\ issues[w] + printed[w] = 1
               /\ ReferenceNow(w) = new_ver_data[w]

\* The positions of check_for_release inside "if self.new_version():".
ChangeCycle == {"pushd2", "get_changelog", "update_version_ref", "backup",
                "write", "create_github_issue", "popd2"}

\* C4. No false positive on equal versions: when the stored version equals the
\* fetched one, whatever the other fields are, the check never enters the
\* change cycle: no notification, no changelog fetched, no backup created,
\* the reference file unchanged.

C4_NoFalsePositive ==
    \A w \in W :
        SameVersion(w)
            => /\ pc[w] \notin ChangeCycle
               /\ issues[w] = 0 /\ printed[w] = 0 /\ changelogs[w] = 0
               /\ \A p \in Places : /\ fs[p][ref_file(w)] = pre[w][p]
                                    /\ bk[p][ref_file(w)] = prebk[w][p]

C4_Witness ==
    \E w \in W :
        /\ Done(w) /\ SameVersion(w) /\ result[w] = "unchanged"
        /\ new_ver_data[w] /= ReferenceBefore(w)

\* C5. Bootstrap idempotence: a check that finds no reference stores the
\* fetched record and notifies nobody; and when the previous check of the
\* dependency bootstrapped it from no reference at all and this one fetched
\* the same record, this one notifies nobody and the stored reference is
\* still that record.
C5_BootstrapIdempotence ==
    \A w \in W :
        Done(w) =>
            /\ Outcome(w) = "bootstrap"
                 => /\ fs[wdir[w]][ref_file(w)] = new_ver_data[w]
                    /\ issues[w] = 0 /\ printed[w] = 0
            /\ (last[w].kind = "boot" /\ new_ver_data[w] = last[w].rec)
                 => /\ issues[w] = 0 /\ printed[w] = 0
                    /\ exc[w] = "none"
                    /\ ReferenceNow(w) = last[w].rec

C5_Witness ==
    \E w \in W :
        /\ Done(w) /\ last[w].kind = "boot" /\ new_ver_data[w] = last[w].rec
        /\ result[w] = "unchanged"

\* C6. Failure isolation: in a sequential batch a dependency's check ends as
\* it would have ended alone, whatever happened to the dependency checked
\* before it: unless one of its own collaborators failed, it ends without
\* error, with the outcome and the reference file its own reference and
\* fetched record call for.
C6_FailureIsolation ==
    \A w \in W :
        (Done(w) /\ OnePlace /\ exc[w] \notin OwnFailures) => AsAlone(w)

\* C7. At-most-once notification: two successive checks of a dependency never
\* both post an issue for the same remote version.
C7_AtMostOnce ==
    \A w \in W :
        (Done(w) /\ issues[w] > 0 /\ last[w].kind = "posted")
            => new_ver_data[w][1].version /= last[w].rec[1].version

\* C8. Concurrent processing of different dependencies: on threads of one
\* process, with collaborators that work and an absolute reference directory,
\* each check ends as it ends when the two checks run one after the other.
C8_ThreadsAsSequential ==
    \A w \in W : (Done(w) /\ refdirAbs) => AsAlone(w)

\* C9. The temporary directory of a check_for_release does not exist when the
\* call has ended, whichever way it ended.
C9_TmpdirRemoved ==
    \A w \in W : pc[w] \in {"done", "finished"} => ~tmpExists[w]

C9_Witness ==
    \E w \in W : Done(w) /\ NotificationFailed(w) /\ ~tmpExists[w]

\* C10. Dry-run: with dry_run set, once the notification step of a change
\* cycle is over, the message was printed once, no issue was created, nothing
\* was raised, and the reference update_version_ref wrote holds the new record.
C10_DryRun ==
    \A w \in W :
        (dry_run[w] /\ Forwarded(w) /\ pc[w] \in {"popd2", "cleanup", "done"})
            => /\ printed[w] = 1 /\ issues[w] = 0
               /\ exc[w] = "none" /\ result[w] = "notified"
               /\ fs[wdir[w]][ref_file(w)] = new_ver_data[w]

C10_Witness ==
    \E w \in W :
        /\ Done(w) /\ dry_run[w] /\ ChangeSeen(w)
        /\ result[w] = "notified" /\ printed[w] = 1

\* The reference file and the .bkup sibling of slot w's dependency are, in
\* every place, as they were when its check_for_release was called.
FilesUntouched(w) ==
    \A p \in Places : /\ fs[p][ref_file(w)] = pre[w][p]
                      /\ bk[p][ref_file(w)] = prebk[w][p]

NothingSent(w) == issues[w] = 0 /\ printed[w] = 0

\* C11. Unknown plugin identifier: once load_plugin has run for a
\* configuration naming a plugin that cannot be imported, check_for_release
\* has ended with ImportError; nothing was fetched (no get_version, no
\* get_changelog, no temporary directory), the reference file and the backup
\* are as they were, and nothing was sent or printed.
C11_UnknownPlugin ==
    \A w \in W :
        (params[w] = "unknown" /\ pc[w] /= "load_plugin")
            => /\ Done(w) /\ exc[w] = "ImportError"
               /\ new_ver_data[w] = NoFile /\ changelogs[w] = 0
               /\ ~tmpExists[w]
               /\ FilesUntouched(w)
               /\ NothingSent(w)

C11_Witness ==
    \E w \in W :
        /\ Done(w) /\ params[w] = "unknown" /\ exc[w] = "ImportError"
        /\ \E p \in Places : pre[w][p] /= NoFile

\* C12. Default plugin: with a configuration that carries no plugin
\* identifier, load_plugin raises nothing and check_for_release goes on to
\* the fetch.
C12_DefaultPlugin ==
    \A w \in W :
        (params[w] = "noparams" /\ pc[w] /= "load_plugin")
            => exc[w] = "none" /\ ~Done(w)

HasNote(text) == \E i \in 1..Len(text) : Head(text[i]) = NoteMark

\* The first line of the changelog that holds 'Version', 0 when none does.
FirstVersionLine(changelog) ==
    IF \E j \in 1..Len(changelog) : HasVersion(changelog[j])
    THEN CHOOSE j \in 1..Len(changelog) :
            /\ HasVersion(changelog[j])
            /\ \A k \in 1..(j - 1) : ~HasVersion(changelog[k])
    ELSE 0

\* The standard content: the text begins with the latest release's heading
\* (with the changelog's first lines when it has no heading) and holds the
\* pointer to the changelog file.
StandardContent(changelog, text) ==
    /\ \E i \in 1..Len(text) : text[i] = Footer
    /\ IF FirstVersionLine(changelog) /= 0
       THEN text[1] = changelog[FirstVersionLine(changelog)]
       ELSE \A j \in 1..Len(changelog) :
               j <= FallbackLines => text[j] = changelog[j]

\* C13. Extra-field surfacing: the text get_extra returns holds the SONAME
\* note exactly when the stored record's soname differs from the soname read
\* from the header, and holds the standard changelog content in both cases.
C13_SonameNote ==
    (latest_changes.called /\ latest_changes.exc = "none")
        => /\ HasNote(latest_changes.text)
                <=> cfitsio.ref_ver_data.soname /= cfitsio.soname
           /\ StandardContent(cfitsio.changelog, latest_changes.text)

C13_Witness ==
    /\ latest_changes.called /\ latest_changes.exc = "none"
    /\ cfitsio.ref_ver_data.soname = "A" /\ cfitsio.soname = "B"
    /\ HasNote(latest_changes.text)
    /\ FirstVersionLine(cfitsio.changelog) = 2
    /\ Len(latest_changes.text) = 4

\* C14. Step order in a change cycle: until get_changelog has returned
\* nothing is copied or written; the .bkup copy of the current reference is
\* there before the write; the new record is in the reference file, and the
\* old one in the .bkup file, before anything is sent; and a get_changelog
\* that raises leaves the reference file as it was and creates no backup.
C14_StepOrder ==
    \A w \in W :
        /\ pc[w] \in {"pushd2", "get_changelog"}
              => changelogs[w] = 0 /\ FilesUntouched(w) /\ NothingSent(w)
        /\ pc[w] \in {"update_version_ref", "backup"}
              => changelogs[w] = 1 /\ FilesUntouched(w) /\ NothingSent(w)
        /\ pc[w] = "write"
              => /\ changelogs[w] = 1 /\ NothingSent(w)
                 /\ \A p \in Places : fs[p][ref_file(w)] = pre[w][p]
                 /\ bk[Resolve(cwd)][ref_file(w)] = fs[Resolve(cwd)][ref_file(w)]
        /\ (pc[w] = "create_github_issue" \/ ~NothingSent(w))
              => /\ changelogs[w] = 1
                 /\ wdir[w] /= Nowhere
                 /\ fs[wdir[w]][ref_file(w)] = new_ver_data[w]
                 /\ bk[wdir[w]][ref_file(w)] = pre[w][wdir[w]]
        /\ pc[w] = "create_github_issue" => NothingSent(w)
        /\ exc[w] = "ChangelogError" => FilesUntouched(w) /\ NothingSent(w)

C14_Witness ==
    \E w \in W :
        /\ Done(w) /\ issues[w] = 1 /\ changelogs[w] = 1
        /\ bk[wdir[w]][ref_file(w)] = File(BaseRec)
        /\ fs[wdir[w]][ref_file(w)] = new_ver_data[w]
        /\ prebk[w][wdir[w]] = NoFile

\* The positions of check_for_release after the fetch.
AfterFetch == {"popd1", "reference_available", "read_reference", "bootstrap",
               "new_version"} \cup ChangeCycle

\* C17. Fetch failure: when get_version raised, or returned a dict without
\* 'version', check_for_release goes no further than its cleanup and ends
\* with the error; the reference file is as it was at the call (absent if it
\* was absent), no backup was created, no changelog fetched, nothing sent.
C17_FetchFailure ==
    \A w \in W :
        /\ (pc[w] \in AfterFetch /\ exc[w] = "none") => Fetched(w)
        /\ exc[w] \in {"FetchError", "KeyError"}
              => /\ pc[w] \in {"cleanup", "done"}
                 /\ ~Fetched(w)
                 /\ FilesUntouched(w) /\ NothingSent(w)
                 /\ changelogs[w] = 0
                 /\ rdir[w] = Nowhere /\ wdir[w] = Nowhere

C17_Witness ==
    \E w \in W :
        /\ Done(w) /\ exc[w] = "KeyError"
        /\ \A p \in Places : fs[p][ref_file(w)] = NoFile
        /\ new_ver_data[w] = File(NoVersionKey)
        /\ cwd = tmp(w) /\ ~tmpExists[w]

\* C18. Transient backup: while no check_for_release is running for a
\* dependency, its reference file has no .bkup sibling.
C18_TransientBackup ==
    \A w \in W :
        ~Running(w) => \A p \in Places : bk[p][ref_file(w)] = NoFile

\* C20. Same reference file throughout a cycle: the file update_version_ref
\* backs up and overwrites, like the file a bootstrap writes, is the file
\* reference_available tested and new_version compared.
C20_SameReferenceFile ==
    \A w \in W :
        /\ (rdir[w] /= Nowhere /\ wdir[w] /= Nowhere) => wdir[w] = rdir[w]
        /\ pc[w] \in {"backup", "write"} => Resolve(cwd) = rdir[w]

\* C19. Working directory restored: when check_for_release has ended, by
\* return or by exception, the process working directory is the one it was
\* called in.
C19_CwdRestored ==
    \A w \in W : Done(w) => cwd = calldir[w]

\* C15. Per-dependency reference independence: two dependencies of distinct
\* names have distinct reference files, and no step of a check_for_release
\* for one of them, while none runs for the other, changes the other's
\* reference file.
C15_ReferenceIndependence ==
    [][\A w \in W :
          (depname[w] /= depname[Other(w)] /\ Running(w) /\ ~Running(Other(w)))
              => /\ ref_file(w) /= ref_file(Other(w))
                 /\ \A p \in Places :
                       fs'[p][ref_file(Other(w))] = fs[p][ref_file(Other(w))]]_vars

\* C16. Crash-safe reference write: whatever step the process stopped at
\* before, a check that has read the reference file has obtained a complete
\* record (the old one or the new one), never an empty file.
C16_CrashSafeWrite ==
    \A w \in W :
        pc[w] = "new_version" => ref_ver_data[w] \in {File(r) : r \in Rec}

====
